---- MODULE Spec2Model ----
(***************************************************************************)
(* A model of src/src/tcp.rs: the socket table, the single-slot event      *)
(* mailbox, the receive thread with its SynSent handler, and connect().    *)
(* 32-bit values (sequence numbers, addresses) are pairs <<hi, lo>> of     *)
(* 16-bit words, so that arithmetic keeps the width of u32.                *)
(***************************************************************************)
EXTENDS Integers, Sequences, FiniteSets, Bags, TLC

VARIABLES
    sockets,          \* TCP.sockets: the table, a function SockID -> Socket
    event,            \* TCP.event_condvar.0: <<>> (None) or <<TCPEvent>>
    callers,          \* one record per thread calling connect()
    sent,             \* the bag of segments the packet I/O facility took
    rx,               \* the receive thread: "running" or "panicked"
    rx_dbg,           \* the last dbg! message of the receive thread
    overflow_checks,  \* the build: TRUE when u32 `+` panics on overflow
    published,        \* history: sock ids ConnectionCompleted was published for
    probe,            \* inputs and results of the sequence comparisons alone
    locks             \* who holds the table's RwLock and the event mutex, and where
                      \* the receive thread is in its turn (lock-level steps only)

vars == <<sockets, event, callers, sent, rx, rx_dbg, overflow_checks, published, probe, locks>>

---------------------------------------------------------------------------
(* Bounds of the model *)

NCallers == 2
NPorts == 2
NRemotePorts == 1

Callers == 1..NCallers

---------------------------------------------------------------------------
(* u32 as <<hi, lo>>, each word in 0..65535 *)

W16 == 2^16

U32(hi, lo) == <<hi, lo>>

U32Zero == U32(0, 0)
U32Max == U32(W16 - 1, W16 - 1)

\* a + 1 in u32 without a check: wraps to 0 after 0xFFFFFFFF
U32WrappingInc(a) ==
    IF a[2] + 1 < W16 THEN U32(a[1], a[2] + 1)
    ELSE U32((a[1] + 1) % W16, 0)

\* Rust's derived order on u32: raw unsigned comparison
U32Le(a, b) == a[1] < b[1] \/ (a[1] = b[1] /\ a[2] <= b[2])
U32Gt(a, b) == ~U32Le(a, b)

---------------------------------------------------------------------------
(* Constants of the program *)

UNDETERMINED_IP_ADDR == U32(0, 0)
UNDETERMINED_PORT == 0
MAX_TRANSMITTING == 5
PORT_RANGE_START == 40000

\* PORT_RANGE, cut to NPorts ports from its start
PORT_RANGE == PORT_RANGE_START .. (PORT_RANGE_START + NPorts - 1)
PORT_RANGE_LEN == NPorts

\* tcpflags
SYN == 2
ACK == 16

\* flag & bit > 0, for a one-bit mask
FlagSet(flag, bit) == (flag \div bit) % 2 = 1

\* The host's address (what the route query answers) and the peers
LocalAddr == U32(2560, 1)
RemoteAddr == U32(2560, 2)
RemotePorts == 80 .. (80 + NRemotePorts - 1)

\* Socket::new's buffer size, advertised as the window
SOCKET_BUFFER_SIZE == 4380

---------------------------------------------------------------------------
(* TCPPacket and its checksum *)

TCP_PROTOCOL == 6
TCP_HEADER_SIZE == 20

\* 16-bit one's-complement sum with end-around carry
Fold16(s) ==
    LET once == (s % W16) + (s \div W16)
    IN (once % W16) + (once \div W16)

\* The sum over the IPv4 pseudo-header and the segment's header words
\* (data offset 5, no options, no payload, urgent pointer 0)
SumWords(p, src_addr, dst_addr) ==
    src_addr[1] + src_addr[2] + dst_addr[1] + dst_addr[2]
    + TCP_PROTOCOL + TCP_HEADER_SIZE
    + p.src + p.dest + p.seq[1] + p.seq[2] + p.ack[1] + p.ack[2]
    + ((TCP_HEADER_SIZE \div 4) * 4096 + p.flag) + p.window_size

ComputeChecksum(p, src_addr, dst_addr) ==
    (W16 - 1) - Fold16(SumWords(p, src_addr, dst_addr))

\* TCPPacket::is_correct_checksum(local_addr, remote_addr)
IsCorrectChecksum(p, local_addr, remote_addr) ==
    Fold16(SumWords(p, remote_addr, local_addr) + p.checksum) = W16 - 1

\* A segment as the packet I/O facility delivers or takes it
Packet(src, dest, seq, ack, flag, window_size, checksum) ==
    [src |-> src, dest |-> dest, seq |-> seq, ack |-> ack, flag |-> flag,
     window_size |-> window_size, checksum |-> checksum]

WithChecksum(p, src_addr, dst_addr) ==
    [p EXCEPT !.checksum = ComputeChecksum(p, src_addr, dst_addr)]

---------------------------------------------------------------------------
(* Socket and SockID *)

SockID(local_addr, remote_addr, local_port, remote_port) ==
    <<local_addr, remote_addr, local_port, remote_port>>

\* Socket::new(local_addr, remote_addr, local_port, remote_port, status)
NewSocket(local_addr, remote_addr, local_port, remote_port, status) ==
    [local_addr |-> local_addr, remote_addr |-> remote_addr,
     local_port |-> local_port, remote_port |-> remote_port,
     send_param |-> [unacked_seq |-> U32Zero, initial_seq |-> U32Zero,
                     next |-> U32Zero, window |-> SOCKET_BUFFER_SIZE],
     recv_param |-> [initial_seq |-> U32Zero, next |-> U32Zero,
                     window |-> SOCKET_BUFFER_SIZE],
     status |-> status]

\* Socket::get_sock_id
GetSockId(socket) ==
    SockID(socket.local_addr, socket.remote_addr, socket.local_port, socket.remote_port)

\* The segment Socket::send_tcp_packet(seq, ack, flag, &[]) builds
BuildTcpPacket(socket, seq, ack, flag) ==
    WithChecksum(Packet(socket.local_port, socket.remote_port, seq, ack, flag,
                        socket.recv_param.window, 0),
                 socket.local_addr, socket.remote_addr)

\* HashMap::insert: a present key's value is replaced
TableInsert(table, id, socket) ==
    [k \in DOMAIN table \cup {id} |-> IF k = id THEN socket ELSE table[k]]

\* The two lookups of receive_handler: <<>> when neither key is present
LookupKey(table, local_addr, remote_addr, dest, src) ==
    IF SockID(local_addr, remote_addr, dest, src) \in DOMAIN table
        THEN <<SockID(local_addr, remote_addr, dest, src)>>
    ELSE IF SockID(local_addr, UNDETERMINED_IP_ADDR, dest, UNDETERMINED_PORT) \in DOMAIN table
        THEN <<SockID(local_addr, UNDETERMINED_IP_ADDR, dest, UNDETERMINED_PORT)>>
    ELSE <<>>

---------------------------------------------------------------------------
(* Inputs: what the random generator and the peers may supply *)

\* rng.gen_range(1..1 << 31): a usual value and the largest one
ISNs == {U32(0, 1000), U32(W16 \div 2 - 1, W16 - 1)}

PeerSeqs == {U32(0, 500), U32Max}
PeerAcks == {U32(0, 1000), U32(0, 1001), U32(W16 \div 2, 0)}
PeerFlags == {SYN, ACK, SYN + ACK}
PeerWindows == {1024}

---------------------------------------------------------------------------
(* synsent_handler *)

\* Faulty variant: no upper end of the range
AckInWindowNoUpper(unacked_seq, ack, next) ==
    U32Le(unacked_seq, ack)

\* unacked_seq <= ack && ack <= next, as the handler writes it
AckInWindow(unacked_seq, ack, next) ==
    U32Le(unacked_seq, ack) /\ U32Le(ack, next)

\* Faulty variant: >= in place of >
SynAcknowledgedGe(unacked_seq, initial_seq) ==
    U32Le(initial_seq, unacked_seq)

\* unacked_seq > initial_seq, as the handler writes it
SynAcknowledged(unacked_seq, initial_seq) ==
    U32Gt(unacked_seq, initial_seq)

\* Faulty variant: the SYN flag is not asked for
SynSentAcceptsNoSyn(socket, packet) ==
    /\ FlagSet(packet.flag, ACK)
    /\ AckInWindow(socket.send_param.unacked_seq, packet.ack, socket.send_param.next)

\* The guard of the handler's only branch
SynSentAccepts(socket, packet) ==
    /\ FlagSet(packet.flag, ACK)
    /\ AckInWindow(socket.send_param.unacked_seq, packet.ack, socket.send_param.next)
    /\ FlagSet(packet.flag, SYN)

\* packet.get_seq() + 1 panics in a build with overflow checks
SeqIncPanics(seq, checks) == checks /\ seq = U32Max

\* Faulty variant: the peer's sequence number is recorded without the + 1
RecordPeerNoInc(socket, packet) ==
    [socket EXCEPT !.recv_param.next = packet.seq,
                   !.recv_param.initial_seq = packet.seq,
                   !.send_param.unacked_seq = packet.ack,
                   !.send_param.window = packet.window_size]

\* The four assignments that follow the guard
RecordPeer(socket, packet) ==
    [socket EXCEPT !.recv_param.next = U32WrappingInc(packet.seq),
                   !.recv_param.initial_seq = packet.seq,
                   !.send_param.unacked_seq = packet.ack,
                   !.send_param.window = packet.window_size]

\* The status the handler moves an accepted socket to
StatusAfterAccept(socket) ==
    IF SynAcknowledged(socket.send_param.unacked_seq, socket.send_param.initial_seq)
        THEN "Established" ELSE "SynRcvd"

\* Whether the handler reaches publish_event: only in the Established
\* branch, and only past the `?` of send_tcp_packet
PublishesCompleted(status, io_ok) == status = "Established" /\ io_ok

\* What one run of synsent_handler (without a panic) yields: the socket
\* afterwards, the segments emitted, whether ConnectionCompleted was
\* published, and the Result
SynSentHandler(socket, packet, io_ok) ==
    IF SynSentAccepts(socket, packet) THEN
        LET s1 == RecordPeer(socket, packet)
            s2 == [s1 EXCEPT !.status = StatusAfterAccept(s1)]
        IN [socket |-> s2,
            out |-> IF io_ok
                      THEN {BuildTcpPacket(s2, s2.send_param.next, s2.recv_param.next, ACK)}
                      ELSE {},
            completed |-> PublishesCompleted(s2.status, io_ok),
            dbg |-> IF io_ok THEN "status: synsent ->" ELSE "error"]
    ELSE [socket |-> socket, out |-> {}, completed |-> FALSE, dbg |-> "synsent handler"]

---------------------------------------------------------------------------
(* The event mailbox *)

TCPEvent(sock_id, kind) == [sock_id |-> sock_id, kind |-> kind]

\* Faulty variant: the sock_id of the event is not compared
EventMatchesKindOnly(ev, sock_id, kind) ==
    ev # <<>> /\ ev[1].kind = kind

\* The test of wait_event's loop
EventMatches(ev, sock_id, kind) ==
    ev # <<>> /\ ev[1].sock_id = sock_id /\ ev[1].kind = kind

\* notify_all: every thread inside cvar.wait goes back to take the mutex
NotifyAll(cs) ==
    [c \in DOMAIN cs |->
        IF cs[c].pc = "cvar_wait" THEN [cs[c] EXCEPT !.pc = "wait_event"] ELSE cs[c]]

\* Faulty variant: the event is recorded only when a thread is inside
\* cvar.wait to be woken
PublishedEventForWaiters(old, sock_id, kind) ==
    IF \E c \in Callers : callers[c].pc = "cvar_wait"
        THEN <<TCPEvent(sock_id, kind)>> ELSE old

\* Faulty variant: an event still in the mailbox is kept
PublishedEventKeepFirst(old, sock_id, kind) ==
    IF old = <<>> THEN <<TCPEvent(sock_id, kind)>> ELSE old

\* publish_event's assignment to the mailbox
PublishedEvent(old, sock_id, kind) == <<TCPEvent(sock_id, kind)>>

---------------------------------------------------------------------------
(* The receive thread: one turn of receive_handler's loop *)

\* Faulty variant: the checksum is not looked at
DiscardsUnrouted(found, checksum_ok) == ~found

\* `continue` before any handler: no socket for the segment, or a wrong checksum
Discards(found, checksum_ok) == ~found \/ ~checksum_ok

\* Faulty variant: SynRcvd sockets are handed to the SynSent handler too
HasHandlerSynRcvd(status) == status \in {"SynSent", "SynRcvd"}

\* The match on socket.status: only SynSent has a handler
HasHandler(status) == status = "SynSent"

Poisoned == rx = "panicked"

\* A datagram from RemoteAddr to LocalAddr: its checksum field is the
\* right one, or is off by one
InboundPacket(src, dest, seq, ack, flag, window, checksum_ok) ==
    LET bare == Packet(src, dest, seq, ack, flag, window, 0)
        right == ComputeChecksum(bare, RemoteAddr, LocalAddr)
    IN [bare EXCEPT !.checksum = IF checksum_ok THEN right ELSE (right + 1) % W16]

Receive(src, dest, seq, ack, flag, window, checksum_ok, io_ok) ==
    /\ rx = "running"
    /\ LET packet == InboundPacket(src, dest, seq, ack, flag, window, checksum_ok)
           key == LookupKey(sockets, LocalAddr, RemoteAddr, dest, src)
           found == key # <<>>
           correct == IsCorrectChecksum(packet, LocalAddr, RemoteAddr)
       IN IF Discards(found, correct) THEN
              /\ rx_dbg' = IF found THEN "invalid checksum" ELSE rx_dbg
              /\ UNCHANGED <<sockets, event, callers, sent, rx, published>>
          ELSE LET sock_id == key[1]
                   socket == sockets[sock_id]
               IN IF ~HasHandler(socket.status) THEN
                      /\ rx_dbg' = "not implemented stat"
                      /\ UNCHANGED <<sockets, event, callers, sent, rx, published>>
                  ELSE IF SynSentAccepts(socket, packet)
                          /\ SeqIncPanics(packet.seq, overflow_checks) THEN
                      /\ rx' = "panicked"
                      /\ rx_dbg' = "synsent handler"
                      /\ UNCHANGED <<sockets, event, callers, sent, published>>
                  ELSE LET r == SynSentHandler(socket, packet, io_ok)
                       IN /\ sockets' = [sockets EXCEPT ![sock_id] = r.socket]
                          /\ sent' = sent (+) SetToBag(r.out)
                          /\ rx_dbg' = r.dbg
                          /\ IF r.completed THEN
                                 /\ event' = PublishedEvent(event, sock_id, "ConnectionCompleted")
                                 /\ callers' = NotifyAll(callers)
                                 /\ published' = published \cup {sock_id}
                             ELSE UNCHANGED <<event, callers, published>>
                          /\ UNCHANGED rx
    /\ UNCHANGED <<overflow_checks, probe, locks>>

\* Whether a turn gets as far as a handler that reads the segment's
\* sequence fields and flags
ReadsSegment(src, dest, checksum_ok) ==
    LET key == LookupKey(sockets, LocalAddr, RemoteAddr, dest, src)
    IN /\ ~Discards(key # <<>>, checksum_ok)
       /\ key # <<>>
       /\ HasHandler(sockets[key[1]].status)

\* Any datagram may arrive. A turn that stops before the handler reads
\* neither the sequence fields nor the flags, and sends nothing: of the
\* datagrams that differ only there, one is drawn (the reply to a SYN)
ReceiveNext ==
    \E src \in RemotePorts, dest \in PORT_RANGE, checksum_ok \in BOOLEAN :
        IF ReadsSegment(src, dest, checksum_ok) THEN
            \E seq \in PeerSeqs, ack \in PeerAcks, flag \in PeerFlags,
               window \in PeerWindows, io_ok \in BOOLEAN :
                Receive(src, dest, seq, ack, flag, window, checksum_ok, io_ok)
        ELSE
            \E window \in PeerWindows :
                Receive(src, dest, U32(0, 500), U32(0, 1001), SYN + ACK, window,
                        checksum_ok, TRUE)

---------------------------------------------------------------------------
(* The two locks: TCP.sockets (RwLock) and TCP.event_condvar.0 (Mutex)    *)

\* The thread TCP::new spawns; the threads calling connect are 1..NCallers
RxThread == 0
Threads == Callers \cup {RxThread}

\* Nobody holds anything; the receive thread is at packet_iter.next()
FreeLocks ==
    [table_writer |-> {}, table_readers |-> {}, event_mutex |-> {},
     rx_pc |-> "next", rx_sock_id |-> <<>>]

\* sockets.read(), sockets.write() and lock.lock() return
CanRead(l) == l.table_writer = {}
CanWrite(l) == l.table_writer = {} /\ l.table_readers = {}
CanLock(l) == l.event_mutex = {}

\* Faulty variant: the write guard is still held when connect goes to wait
TableHeldAfterInsert(writer, c) == writer

\* drop(table) in connect
TableAfterInsert(writer, c) == writer \ {c}

---------------------------------------------------------------------------
(* connect, one step per access to shared state *)

\* A thread outside connect; `waited` tells whether the call has been inside
\* cvar.wait
IdleCaller ==
    [pc |-> "idle", remote_port |-> 0, tries |-> 0, socket |-> <<>>, ret |-> "none",
     waited |-> FALSE]

\* connect has returned an error, or its thread has panicked: its locals are gone
Returned(how, ret) == [IdleCaller EXCEPT !.pc = how, !.ret = ret]

\* table.keys().all(|k| local_port != k.2)
PortUnused(table, local_port) == \A k \in DOMAIN table : local_port # k[3]

\* get_source_addr_to(addr)?: the route query, which may fail
Connect(c, port, route_ok) ==
    /\ callers[c].pc = "idle"
    /\ callers' = [callers EXCEPT ![c] =
          IF route_ok THEN [@ EXCEPT !.pc = "select_port", !.remote_port = port]
          ELSE Returned("failed", "Err")]
    /\ UNCHANGED <<sockets, event, sent, rx, rx_dbg, overflow_checks, published, probe, locks>>

\* One turn of select_unused_port's loop, then Socket::new with the port
\* found; the loop gives up after PORT_RANGE_LEN turns
SelectUnusedPort(c, local_port) ==
    /\ callers[c].pc = "select_port"
    /\ LET me == callers[c]
       IN callers' = [callers EXCEPT ![c] =
          IF Poisoned THEN Returned("panicked", "none")
          ELSE IF PortUnused(sockets, local_port) THEN
              [me EXCEPT !.pc = "send_syn", !.tries = 0,
                         !.socket = <<NewSocket(LocalAddr, RemoteAddr, local_port,
                                                me.remote_port, "SynSent")>>]
          ELSE IF me.tries + 1 < PORT_RANGE_LEN THEN [me EXCEPT !.tries = me.tries + 1]
          ELSE Returned("failed", "Err")]
    /\ UNCHANGED <<sockets, event, sent, rx, rx_dbg, overflow_checks, published, probe, locks>>

\* The socket connect holds once the SYN is out
SynSentSocket(socket, isn) ==
    [socket EXCEPT !.send_param.initial_seq = isn,
                   !.send_param.unacked_seq = isn,
                   !.send_param.next = U32WrappingInc(isn)]

\* Choose the ISN and send the SYN; Socket::new or the send may fail
SendSyn(c, isn, io_ok) ==
    /\ callers[c].pc = "send_syn"
    /\ LET socket == callers[c].socket[1]
       IN IF io_ok THEN
              /\ sent' = sent (+) SetToBag({BuildTcpPacket(socket, isn, U32Zero, SYN)})
              /\ callers' = [callers EXCEPT ![c] =
                    [@ EXCEPT !.pc = "insert", !.socket = <<SynSentSocket(socket, isn)>>]]
          ELSE
              /\ callers' = [callers EXCEPT ![c] = Returned("failed", "Err")]
              /\ UNCHANGED sent
    /\ UNCHANGED <<sockets, event, rx, rx_dbg, overflow_checks, published, probe, locks>>

\* table.insert(sock_id, socket); drop(table)
Insert(c) ==
    /\ callers[c].pc = "insert"
    /\ IF Poisoned THEN
           /\ callers' = [callers EXCEPT ![c] = Returned("panicked", "none")]
           /\ UNCHANGED sockets
       ELSE
           /\ sockets' = TableInsert(sockets, GetSockId(callers[c].socket[1]),
                                     callers[c].socket[1])
           /\ callers' = [callers EXCEPT ![c] = [@ EXCEPT !.pc = "wait_event"]]
    /\ UNCHANGED <<event, sent, rx, rx_dbg, overflow_checks, published, probe, locks>>

\* The id connect waits for and returns
WaitedId(c) == GetSockId(callers[c].socket[1])

\* wait_event with the mutex held: leave the loop and clear the mailbox on
\* a match, otherwise enter cvar.wait
WaitEvent(c) ==
    /\ callers[c].pc = "wait_event"
    /\ IF EventMatches(event, WaitedId(c), "ConnectionCompleted") THEN
           /\ event' = <<>>
           /\ callers' = [callers EXCEPT ![c] = [@ EXCEPT !.pc = "done", !.ret = "Ok"]]
       ELSE
           /\ callers' = [callers EXCEPT ![c] =
                 [@ EXCEPT !.pc = "cvar_wait", !.waited = TRUE]]
           /\ UNCHANGED event
    /\ UNCHANGED <<sockets, sent, rx, rx_dbg, overflow_checks, published, probe, locks>>

\* cvar.wait may return without a notification
SpuriousWakeup(c) ==
    /\ callers[c].pc = "cvar_wait"
    /\ callers' = [callers EXCEPT ![c] = [@ EXCEPT !.pc = "wait_event"]]
    /\ UNCHANGED <<sockets, event, sent, rx, rx_dbg, overflow_checks, published, probe, locks>>

\* The steps a thread inside connect takes by itself
CallerStep(c) ==
    \/ \E local_port \in PORT_RANGE : SelectUnusedPort(c, local_port)
    \/ \E isn \in ISNs, io_ok \in BOOLEAN : SendSyn(c, isn, io_ok)
    \/ Insert(c)
    \/ WaitEvent(c)

---------------------------------------------------------------------------
(* The whole program *)

Init ==
    /\ sockets = <<>>
    /\ event = <<>>
    /\ callers = [c \in Callers |-> IdleCaller]
    /\ sent = EmptyBag
    /\ rx = "running"
    /\ rx_dbg = "begin recv thread"
    /\ overflow_checks \in BOOLEAN
    /\ published = {}
    /\ probe = <<>>
    /\ locks = FreeLocks

Next ==
    \/ \E c \in Callers, port \in RemotePorts, route_ok \in BOOLEAN : Connect(c, port, route_ok)
    \/ \E c \in Callers : CallerStep(c)
    \/ \E c \in Callers : SpuriousWakeup(c)
    \/ ReceiveNext

Spec == Init /\ [][Next]_vars

\* Threads inside connect are scheduled fairly; calls of connect and
\* inbound datagrams are the environment's
FairSpec == Spec /\ \A c \in Callers : WF_vars(CallerStep(c))

---------------------------------------------------------------------------
(* The same program, one step per lock operation: taking a lock and the    *)
(* code run under it are separate steps. A thread calling connect is at    *)
(* select_port / insert / wait_event when it is about to take the lock of  *)
(* that part, and at *_locked when it holds it.                            *)

\* select_unused_port: self.sockets.read().unwrap()
LockTableRead(c) ==
    /\ callers[c].pc = "select_port"
    /\ IF Poisoned THEN
           /\ callers' = [callers EXCEPT ![c] = Returned("panicked", "none")]
           /\ UNCHANGED locks
       ELSE
           /\ CanRead(locks)
           /\ locks' = [locks EXCEPT !.table_readers = @ \cup {c}]
           /\ callers' = [callers EXCEPT ![c] = [@ EXCEPT !.pc = "select_locked"]]
    /\ UNCHANGED <<sockets, event, sent, rx, rx_dbg, overflow_checks, published, probe>>

\* The test under the read guard, which is dropped at the end of the turn
SelectUnusedPortLocked(c, local_port) ==
    /\ callers[c].pc = "select_locked"
    /\ LET me == callers[c]
       IN callers' = [callers EXCEPT ![c] =
          IF PortUnused(sockets, local_port) THEN
              [me EXCEPT !.pc = "send_syn", !.tries = 0,
                         !.socket = <<NewSocket(LocalAddr, RemoteAddr, local_port,
                                                me.remote_port, "SynSent")>>]
          ELSE IF me.tries + 1 < PORT_RANGE_LEN
              THEN [me EXCEPT !.pc = "select_port", !.tries = me.tries + 1]
          ELSE Returned("failed", "Err")]
    /\ locks' = [locks EXCEPT !.table_readers = @ \ {c}]
    /\ UNCHANGED <<sockets, event, sent, rx, rx_dbg, overflow_checks, published, probe>>

\* connect: self.sockets.write().unwrap()
LockTableWrite(c) ==
    /\ callers[c].pc = "insert"
    /\ IF Poisoned THEN
           /\ callers' = [callers EXCEPT ![c] = Returned("panicked", "none")]
           /\ UNCHANGED locks
       ELSE
           /\ CanWrite(locks)
           /\ locks' = [locks EXCEPT !.table_writer = {c}]
           /\ callers' = [callers EXCEPT ![c] = [@ EXCEPT !.pc = "insert_locked"]]
    /\ UNCHANGED <<sockets, event, sent, rx, rx_dbg, overflow_checks, published, probe>>

\* table.insert(sock_id, socket); drop(table)
InsertLocked(c) ==
    /\ callers[c].pc = "insert_locked"
    /\ sockets' = TableInsert(sockets, GetSockId(callers[c].socket[1]), callers[c].socket[1])
    /\ locks' = [locks EXCEPT !.table_writer = TableAfterInsert(@, c)]
    /\ callers' = [callers EXCEPT ![c] = [@ EXCEPT !.pc = "wait_event"]]
    /\ UNCHANGED <<event, sent, rx, rx_dbg, overflow_checks, published, probe>>

\* wait_event: lock.lock(), and the mutex taken again when cvar.wait returns
LockEvent(c) ==
    /\ callers[c].pc = "wait_event"
    /\ CanLock(locks)
    /\ locks' = [locks EXCEPT !.event_mutex = {c}]
    /\ callers' = [callers EXCEPT ![c] = [@ EXCEPT !.pc = "wait_locked"]]
    /\ UNCHANGED <<sockets, event, sent, rx, rx_dbg, overflow_checks, published, probe>>

\* The test of the loop under the mutex: clear the mailbox and return, or
\* enter cvar.wait; both give the mutex back
WaitEventLocked(c) ==
    /\ callers[c].pc = "wait_locked"
    /\ IF EventMatches(event, WaitedId(c), "ConnectionCompleted") THEN
           /\ event' = <<>>
           /\ callers' = [callers EXCEPT ![c] = [@ EXCEPT !.pc = "done", !.ret = "Ok"]]
       ELSE
           /\ callers' = [callers EXCEPT ![c] =
                 [@ EXCEPT !.pc = "cvar_wait", !.waited = TRUE]]
           /\ UNCHANGED event
    /\ locks' = [locks EXCEPT !.event_mutex = @ \ {c}]
    /\ UNCHANGED <<sockets, sent, rx, rx_dbg, overflow_checks, published, probe>>

CallerLockStep(c) ==
    \/ LockTableRead(c)
    \/ \E local_port \in PORT_RANGE : SelectUnusedPortLocked(c, local_port)
    \/ \E isn \in ISNs, io_ok \in BOOLEAN : SendSyn(c, isn, io_ok)
    \/ LockTableWrite(c)
    \/ InsertLocked(c)
    \/ LockEvent(c)
    \/ WaitEventLocked(c)

\* The guards the receive thread gives back at the end of a turn
RxReleased(l) ==
    [l EXCEPT !.table_writer = @ \ {RxThread}, !.event_mutex = @ \ {RxThread},
              !.rx_pc = "next", !.rx_sock_id = <<>>]

\* receive_handler: a datagram is there; self.sockets.write().unwrap()
RxLockTable ==
    /\ rx = "running"
    /\ locks.rx_pc = "next"
    /\ CanWrite(locks)
    /\ locks' = [locks EXCEPT !.table_writer = {RxThread}, !.rx_pc = "lookup"]
    /\ UNCHANGED <<sockets, event, callers, sent, rx, rx_dbg, overflow_checks, published, probe>>

\* The turn under the write guard, up to publish_event's lock.lock(): the
\* guard is given back by `continue`, by the handler returning without a
\* publish, and by the unwinding of a panic
RxHandle(src, dest, seq, ack, flag, window, checksum_ok, io_ok) ==
    /\ rx = "running"
    /\ locks.rx_pc = "lookup"
    /\ LET packet == InboundPacket(src, dest, seq, ack, flag, window, checksum_ok)
           key == LookupKey(sockets, LocalAddr, RemoteAddr, dest, src)
           found == key # <<>>
           correct == IsCorrectChecksum(packet, LocalAddr, RemoteAddr)
       IN IF Discards(found, correct) THEN
              /\ rx_dbg' = IF found THEN "invalid checksum" ELSE rx_dbg
              /\ locks' = RxReleased(locks)
              /\ UNCHANGED <<sockets, sent, rx>>
          ELSE LET sock_id == key[1]
                   socket == sockets[sock_id]
               IN IF ~HasHandler(socket.status) THEN
                      /\ rx_dbg' = "not implemented stat"
                      /\ locks' = RxReleased(locks)
                      /\ UNCHANGED <<sockets, sent, rx>>
                  ELSE IF SynSentAccepts(socket, packet)
                          /\ SeqIncPanics(packet.seq, overflow_checks) THEN
                      /\ rx' = "panicked"
                      /\ rx_dbg' = "synsent handler"
                      /\ locks' = RxReleased(locks)
                      /\ UNCHANGED <<sockets, sent>>
                  ELSE LET r == SynSentHandler(socket, packet, io_ok)
                       IN /\ sockets' = [sockets EXCEPT ![sock_id] = r.socket]
                          /\ sent' = sent (+) SetToBag(r.out)
                          /\ rx_dbg' = r.dbg
                          /\ locks' = IF r.completed
                                THEN [locks EXCEPT !.rx_pc = "publish", !.rx_sock_id = <<sock_id>>]
                                ELSE RxReleased(locks)
                          /\ UNCHANGED rx
    /\ UNCHANGED <<event, callers, overflow_checks, published, probe>>

\* publish_event: lock.lock(), with the table's write guard held
RxLockEvent ==
    /\ locks.rx_pc = "publish"
    /\ CanLock(locks)
    /\ locks' = [locks EXCEPT !.event_mutex = {RxThread}, !.rx_pc = "notify"]
    /\ UNCHANGED <<sockets, event, callers, sent, rx, rx_dbg, overflow_checks, published, probe>>

\* *e = Some(..); cvar.notify_all(); then both guards go out of scope
RxPublish ==
    /\ locks.rx_pc = "notify"
    /\ event' = PublishedEvent(event, locks.rx_sock_id[1], "ConnectionCompleted")
    /\ callers' = NotifyAll(callers)
    /\ published' = published \cup {locks.rx_sock_id[1]}
    /\ locks' = RxReleased(locks)
    /\ UNCHANGED <<sockets, sent, rx, rx_dbg, overflow_checks, probe>>

RxStep ==
    \/ RxLockTable
    \/ \E src \in RemotePorts, dest \in PORT_RANGE, checksum_ok \in BOOLEAN :
          IF ReadsSegment(src, dest, checksum_ok) THEN
              \E seq \in PeerSeqs, ack \in PeerAcks, flag \in PeerFlags,
                 window \in PeerWindows, io_ok \in BOOLEAN :
                  RxHandle(src, dest, seq, ack, flag, window, checksum_ok, io_ok)
          ELSE
              \E window \in PeerWindows :
                  RxHandle(src, dest, U32(0, 500), U32(0, 1001), SYN + ACK, window,
                           checksum_ok, TRUE)
    \/ RxLockEvent
    \/ RxPublish

NextLock ==
    \/ \E c \in Callers, port \in RemotePorts, route_ok \in BOOLEAN : Connect(c, port, route_ok)
    \/ \E c \in Callers : CallerLockStep(c)
    \/ \E c \in Callers : SpuriousWakeup(c)
    \/ RxStep

SpecLock == Init /\ [][NextLock]_vars

---------------------------------------------------------------------------
(* The handler's sequence comparisons alone, on 32-bit values around 0,    *)
(* 2^31 and 2^32                                                           *)

ProbeValues ==
    {U32(0, 0), U32(0, 16), U32(0, 48), U32(W16 \div 2 - 1, W16 - 1),
     U32(W16 \div 2, 0), U32(W16 - 1, W16 - 16), U32Max}

ProbeInput(unacked_seq, ack, next, initial_seq) ==
    [unacked_seq |-> unacked_seq, ack |-> ack, next |-> next,
     initial_seq |-> initial_seq, done |-> FALSE, in_window |-> FALSE, acked |-> FALSE]

\* The range test on (unacked_seq, ack, next), then, as after
\* `unacked_seq = ack`, the test against initial_seq
ProbeCompare ==
    /\ probe # <<>>
    /\ ~probe[1].done
    /\ probe' = <<[probe[1] EXCEPT
                     !.done = TRUE,
                     !.in_window = AckInWindow(probe[1].unacked_seq, probe[1].ack,
                                               probe[1].next),
                     !.acked = SynAcknowledged(probe[1].ack, probe[1].initial_seq)]>>
    /\ UNCHANGED <<sockets, event, callers, sent, rx, rx_dbg, overflow_checks, published,
                   locks>>

InitSeq ==
    /\ sockets = <<>>
    /\ event = <<>>
    /\ callers = [c \in Callers |-> IdleCaller]
    /\ sent = EmptyBag
    /\ rx = "running"
    /\ rx_dbg = "begin recv thread"
    /\ overflow_checks = FALSE
    /\ published = {}
    /\ locks = FreeLocks
    /\ \E unacked_seq \in ProbeValues, ack \in ProbeValues, next \in ProbeValues,
          initial_seq \in ProbeValues :
           probe = <<ProbeInput(unacked_seq, ack, next, initial_seq)>>

NextSeq == ProbeCompare

SpecSeq == InitSeq /\ [][NextSeq]_vars

---------------------------------------------------------------------------
(* Helpers of the properties *)

InTable(id) == id \in DOMAIN sockets

\* a - b modulo 2^32
U32WrappingSub(a, b) ==
    LET lo == a[2] - b[2]
        borrow == IF lo < 0 THEN 1 ELSE 0
    IN U32((a[1] - b[1] - borrow + 2 * W16) % W16, (lo + W16) % W16)

\* (b - a) as i32 >= 0: the sign bit of the 32-bit difference is clear;
\* and (a - b) as i32 > 0
SeqLe(a, b) == U32WrappingSub(b, a)[1] < W16 \div 2
SeqGt(a, b) == a # b /\ SeqLe(b, a)

\* Threads blocked in connect for socket id
WaitingOn(c, id) ==
    /\ callers[c].pc \in {"wait_event", "cvar_wait"}
    /\ WaitedId(c) = id

\* The segment socket s would emit with these numbers and flags
Emitted(s, seq, ack, flag) == BuildTcpPacket(s, seq, ack, flag)

\* One more copy of p was handed to the packet I/O facility, and nothing else
EmitsOnly(p) == sent' = sent (+) SetToBag({p})

---------------------------------------------------------------------------
(* C1: a SynSent socket of the table has unacked_seq = ISN and next =      *)
(* ISN + 1 and its SYN{seq=ISN} is out; when the receive thread handles a  *)
(* SYN+ACK{seq=P, ack=ISN+1} for it (correct checksum, no arithmetic       *)
(* fault), the socket becomes Established with recv.next = P+1 and         *)
(* send.unacked_seq = ISN+1; when the packet I/O facility takes the reply, *)
(* exactly one ACK{seq=ISN+1, ack=P+1} is emitted, ConnectionCompleted is  *)
(* in the mailbox for that id and every thread blocked in connect on that  *)
(* id is woken with it there; a thread that finds its event in the         *)
(* mailbox returns Ok.                                                     *)

C1_AfterConnect ==
    \A id \in DOMAIN sockets :
        sockets[id].status = "SynSent" =>
            /\ sockets[id].send_param.unacked_seq = sockets[id].send_param.initial_seq
            /\ sockets[id].send_param.next =
                   U32WrappingInc(sockets[id].send_param.initial_seq)
            /\ BagIn(Emitted(sockets[id], sockets[id].send_param.initial_seq, U32Zero, SYN), sent)

C1_HandshakeStep ==
    \A src \in RemotePorts, dest \in PORT_RANGE, p \in PeerSeqs,
       window \in PeerWindows, io_ok \in BOOLEAN :
        LET id == SockID(LocalAddr, RemoteAddr, dest, src)
            isn == sockets[id].send_param.initial_seq
        IN (/\ InTable(id)
            /\ sockets[id].status = "SynSent"
            /\ Receive(src, dest, p, U32WrappingInc(isn), SYN + ACK, window, TRUE, io_ok)
            /\ rx' = "running")
           => /\ sockets'[id].status = "Established"
              /\ sockets'[id].recv_param.next = U32WrappingInc(p)
              /\ sockets'[id].send_param.unacked_seq = U32WrappingInc(isn)
              /\ io_ok =>
                    /\ EmitsOnly(Emitted(sockets[id], U32WrappingInc(isn),
                                         U32WrappingInc(p), ACK))
                    /\ event' = <<TCPEvent(id, "ConnectionCompleted")>>
                    /\ \A c \in Callers :
                          WaitingOn(c, id) => callers'[c].pc = "wait_event"

C1_ConnectReturns ==
    \A c \in Callers :
        (/\ callers[c].pc = "wait_event"
         /\ event = <<TCPEvent(WaitedId(c), "ConnectionCompleted")>>
         /\ callers'[c] # callers[c])
        => /\ callers'[c].pc = "done"
           /\ callers'[c].ret = "Ok"
           /\ WaitedId(c)' = WaitedId(c)

---------------------------------------------------------------------------
(* C2: connect never hangs: a thread blocked in connect whose socket is    *)
(* Established and whose ConnectionCompleted has been published            *)
(* eventually returns.                                                     *)

C2_Completed(c) ==
    /\ callers[c].pc \in {"wait_event", "cvar_wait"}
    /\ InTable(WaitedId(c))
    /\ sockets[WaitedId(c)].status = "Established"
    /\ WaitedId(c) \in published

C2_ConnectNeverHangs ==
    \A c \in Callers : C2_Completed(c) ~> (callers[c].pc = "done")

---------------------------------------------------------------------------
(* C3: bounded retry: the SYN goes out at most 1 + MAX_TRANSMITTING        *)
(* times, and a thread blocked in connect on a socket still in SynSent     *)
(* eventually gets out: its connect returns (Ok or an abort error) or the  *)
(* socket leaves SynSent.                                                  *)

C3_Unacknowledged(c) ==
    /\ callers[c].pc \in {"wait_event", "cvar_wait"}
    /\ InTable(WaitedId(c))
    /\ sockets[WaitedId(c)].status = "SynSent"

C3_BoundedRetry ==
    /\ [](\A p \in BagToSet(sent) : CopiesIn(p, sent) <= 1 + MAX_TRANSMITTING)
    /\ \A c \in Callers : C3_Unacknowledged(c) ~> ~C3_Unacknowledged(c)

---------------------------------------------------------------------------
(* C4: a datagram with a wrong checksum changes no socket, emits nothing,  *)
(* publishes nothing, wakes nobody, and leaves the receive thread running, *)
(* whatever the socket's status and the segment's content.                 *)

C4_Inputs ==
    \A src \in RemotePorts, dest \in PORT_RANGE, seq \in PeerSeqs, ack \in PeerAcks,
       flag \in PeerFlags, window \in PeerWindows, checksum_ok \in BOOLEAN :
        IsCorrectChecksum(InboundPacket(src, dest, seq, ack, flag, window, checksum_ok),
                          LocalAddr, RemoteAddr) = checksum_ok

\* The step is a turn of the receive loop on some datagram with these
\* ports and a wrong checksum
C4_BadChecksumTurn(src, dest) ==
    \E seq \in PeerSeqs, ack \in PeerAcks, flag \in PeerFlags,
       window \in PeerWindows, io_ok \in BOOLEAN :
        Receive(src, dest, seq, ack, flag, window, FALSE, io_ok)

\* Such a turn changes nothing but the diagnostic: a step that changes
\* more is no such turn
C4_DiscardStep ==
    \A src \in RemotePorts, dest \in PORT_RANGE :
        ~(UNCHANGED <<sockets, event, callers, sent, published>> /\ rx' = "running")
        => ~C4_BadChecksumTurn(src, dest)

C4_BadChecksumDiscarded == C4_Inputs /\ [][C4_DiscardStep]_vars

\* A datagram for a SynSent socket on which a thread waits was dropped for
\* its checksum
C4_Witness ==
    /\ rx_dbg = "invalid checksum"
    /\ \E c \in Callers :
          /\ callers[c].pc \in {"wait_event", "cvar_wait"}
          /\ InTable(WaitedId(c))
          /\ sockets[WaitedId(c)].status = "SynSent"

---------------------------------------------------------------------------
(* C5: simultaneous open: a bare SYN{seq=P} on a SynSent socket moves it   *)
(* to SynRcvd, emits SYN+ACK{seq=ISN, ack=P+1} and publishes nothing.      *)

C5_BareSynStep ==
    \A src \in RemotePorts, dest \in PORT_RANGE, p \in PeerSeqs, ack \in PeerAcks,
       window \in PeerWindows :
        LET id == SockID(LocalAddr, RemoteAddr, dest, src)
            isn == sockets[id].send_param.initial_seq
        IN (/\ InTable(id)
            /\ sockets[id].status = "SynSent"
            /\ Receive(src, dest, p, ack, SYN, window, TRUE, TRUE))
           => /\ sockets'[id].status = "SynRcvd"
              /\ EmitsOnly(Emitted(sockets[id], isn, U32WrappingInc(p), SYN + ACK))
              /\ event' = event

C5_SimultaneousOpen == [][C5_BareSynStep]_vars

---------------------------------------------------------------------------
(* C6: the handler's range test unacked_seq <= ack <= next and its test    *)
(* unacked_seq > initial_seq agree with the signed-difference comparison   *)
(* for every 32-bit unacked_seq, ack, next and initial_seq.                *)

---------------------------------------------------------------------------
(* C7: an insert under an id already in the table leaves the table as it   *)
(* was.                                                                    *)

C7_InsertStep ==
    \A c \in Callers :
        (Insert(c) /\ InTable(WaitedId(c))) => sockets' = sockets

C7_InsertKeepsExisting == [][C7_InsertStep]_vars

---------------------------------------------------------------------------
(* C8: when connect inserts its socket, the local port it got from         *)
(* select_unused_port is the local port of no socket already in the table  *)
(* (so that no two sockets of the table share a local port).               *)

C8_InsertStep ==
    \A c \in Callers :
        (Insert(c) /\ ~Poisoned)
        => PortUnused(sockets, callers[c].socket[1].local_port)

C8_InsertedPortUnbound == [][C8_InsertStep]_vars

---------------------------------------------------------------------------
(* C9: a segment routed to a socket that is not in SynSent changes no      *)
(* socket, emits nothing, publishes nothing and leaves the receive thread  *)
(* running; and any one segment changes no socket but the one it was       *)
(* routed to, and adds or removes none.                                    *)

\* The step is a turn of the receive loop on some datagram with these ports
C9_Turn(src, dest) ==
    \E seq \in PeerSeqs, ack \in PeerAcks, flag \in PeerFlags, window \in PeerWindows,
       checksum_ok \in BOOLEAN, io_ok \in BOOLEAN :
        Receive(src, dest, seq, ack, flag, window, checksum_ok, io_ok)

\* A step that adds a socket, or changes one the datagram is not routed
\* to, or changes anything but the diagnostic while the socket it is
\* routed to is not in SynSent, is no turn of the receive loop
C9_IgnoredStep ==
    \A src \in RemotePorts, dest \in PORT_RANGE :
        LET id == SockID(LocalAddr, RemoteAddr, dest, src)
        IN (\/ DOMAIN sockets' # DOMAIN sockets
            \/ \E k \in DOMAIN sockets : k # id /\ sockets'[k] # sockets[k]
            \/ /\ InTable(id)
               /\ sockets[id].status # "SynSent"
               /\ ~(UNCHANGED <<sockets, event, callers, sent, published>>
                    /\ rx' = "running"))
           => ~C9_Turn(src, dest)

C9_OtherStatusIgnored == [][C9_IgnoredStep]_vars

\* A segment for an Established socket was logged and ignored while
\* another socket is in the table
C9_Witness ==
    /\ rx_dbg = "not implemented stat"
    /\ rx = "running"
    /\ Cardinality(DOMAIN sockets) = 2
    /\ \E id \in DOMAIN sockets : sockets[id].status = "Established"

---------------------------------------------------------------------------
(* C10: a SYN+ACK{seq=P, ack=ISN} on a SynSent socket (in the window, but  *)
(* not acknowledging the SYN) moves it to SynRcvd with recv.next = P+1;    *)
(* when the packet I/O facility takes the reply, one ACK{seq=send.next,    *)
(* ack=recv.next} is emitted; nothing is published and no thread blocked   *)
(* in connect moves.                                                       *)

C10_SynRcvdStep ==
    \A src \in RemotePorts, dest \in PORT_RANGE, p \in PeerSeqs,
       window \in PeerWindows, io_ok \in BOOLEAN :
        LET id == SockID(LocalAddr, RemoteAddr, dest, src)
            isn == sockets[id].send_param.initial_seq
        IN (/\ InTable(id)
            /\ sockets[id].status = "SynSent"
            /\ Receive(src, dest, p, isn, SYN + ACK, window, TRUE, io_ok)
            /\ rx' = "running")
           => /\ sockets'[id].status = "SynRcvd"
              /\ sockets'[id].recv_param.next = U32WrappingInc(p)
              /\ sockets'[id].send_param.unacked_seq = isn
              /\ io_ok => EmitsOnly(Emitted(sockets[id], sockets'[id].send_param.next,
                                            sockets'[id].recv_param.next, ACK))
              /\ ~io_ok => sent' = sent
              /\ UNCHANGED <<event, callers, published>>

---------------------------------------------------------------------------
(* C11: an ACK with ack = send.next for a socket in SynRcvd moves it to    *)
(* Established and ConnectionCompleted is published for it (so that a      *)
(* connect that went SynSent -> SynRcvd returns once that ACK arrives).    *)

C11_AckStep ==
    \A src \in RemotePorts, dest \in PORT_RANGE, seq \in PeerSeqs,
       window \in PeerWindows, io_ok \in BOOLEAN :
        LET id == SockID(LocalAddr, RemoteAddr, dest, src)
        IN (/\ InTable(id)
            /\ sockets[id].status = "SynRcvd"
            /\ Receive(src, dest, seq, sockets[id].send_param.next, ACK, window,
                       TRUE, io_ok))
           => /\ sockets'[id].status = "Established"
              /\ event' = <<TCPEvent(id, "ConnectionCompleted")>>
              /\ id \in published'

C11_SynRcvdToEstablished == [][C11_AckStep]_vars

---------------------------------------------------------------------------
(* C12: a segment the SynSent state does not expect (no ACK flag, or no    *)
(* SYN flag, or an ack outside [send.unacked_seq, send.next]) leaves the   *)
(* socket as it was (status, SendParam, RecvParam), emits nothing and      *)
(* publishes nothing; the handler returns Ok and the receive thread goes   *)
(* on.                                                                     *)

C12_Expected(socket, ack, flag) ==
    /\ FlagSet(flag, ACK)
    /\ FlagSet(flag, SYN)
    /\ SeqLe(socket.send_param.unacked_seq, ack)
    /\ SeqLe(ack, socket.send_param.next)

\* The step is a turn of the receive loop on some datagram with these
\* ports and a correct checksum that the SynSent state does not expect
C12_UnexpectedTurn(src, dest) ==
    \E seq \in PeerSeqs, ack \in PeerAcks, flag \in PeerFlags,
       window \in PeerWindows, io_ok \in BOOLEAN :
        /\ ~C12_Expected(sockets[SockID(LocalAddr, RemoteAddr, dest, src)], ack, flag)
        /\ Receive(src, dest, seq, ack, flag, window, TRUE, io_ok)

\* A step that changes more than the diagnostic, or ends with an error, is
\* no such turn on a socket in SynSent
C12_UnexpectedStep ==
    \A src \in RemotePorts, dest \in PORT_RANGE :
        LET id == SockID(LocalAddr, RemoteAddr, dest, src)
        IN (/\ InTable(id)
            /\ sockets[id].status = "SynSent"
            /\ ~(/\ UNCHANGED <<sockets, event, callers, sent, published>>
                 /\ rx' = "running"
                 /\ rx_dbg' # "error"))
           => ~C12_UnexpectedTurn(src, dest)

C12_UnexpectedSegmentIgnored == [][C12_UnexpectedStep]_vars

\* The handler ran on a segment and left the SynSent socket, on which a
\* thread waits, as connect made it
C12_Witness ==
    /\ rx_dbg = "synsent handler"
    /\ rx = "running"
    /\ event = <<>>
    /\ published = {}
    /\ \E c \in Callers :
          /\ callers[c].pc = "cvar_wait"
          /\ InTable(WaitedId(c))
          /\ sockets[WaitedId(c)] = callers[c].socket[1]
          /\ sockets[WaitedId(c)].status = "SynSent"
          /\ \A p \in BagToSet(sent) : p.flag = SYN

---------------------------------------------------------------------------
(* C13: for every socket of the table, in every reachable state,           *)
(* send.initial_seq <= send.unacked_seq <= send.next under the             *)
(* wraparound-aware comparison.                                            *)

C13_SeqOrdered ==
    \A id \in DOMAIN sockets :
        /\ SeqLe(sockets[id].send_param.initial_seq, sockets[id].send_param.unacked_seq)
        /\ SeqLe(sockets[id].send_param.unacked_seq, sockets[id].send_param.next)

\* The largest ISN, 2^31 - 1: the handler has moved unacked_seq up to
\* next = 2^31
C13_Witness ==
    \E id \in DOMAIN sockets :
        /\ sockets[id].status = "Established"
        /\ sockets[id].send_param.initial_seq = U32(W16 \div 2 - 1, W16 - 1)
        /\ sockets[id].send_param.unacked_seq = U32(W16 \div 2, 0)
        /\ sockets[id].send_param.next = U32(W16 \div 2, 0)

---------------------------------------------------------------------------
(* C14: wait_event(id, kind) returns only from a state where the mailbox   *)
(* holds the event (id, kind), and leaves the mailbox empty; the mailbox   *)
(* is emptied by nothing but a waiter returning on its own event, also     *)
(* when waiters for several ids were woken together.                       *)

C14_ReturnStep ==
    \A c \in Callers :
        (callers[c].pc # "done" /\ callers'[c].pc = "done")
        => /\ callers[c].pc = "wait_event"
           /\ event = <<TCPEvent(WaitedId(c), "ConnectionCompleted")>>
           /\ event' = <<>>

C14_ClearStep ==
    (event # <<>> /\ event' # event)
    => \/ \E c \in Callers :
             /\ callers[c].pc = "wait_event"
             /\ callers'[c].pc = "done"
             /\ event[1] = TCPEvent(WaitedId(c), "ConnectionCompleted")
             /\ event' = <<>>
       \/ /\ event' # <<>>
          /\ \A c \in Callers : callers'[c].pc = "done" <=> callers[c].pc = "done"

C14_WaitReturnsOnMatch == [][C14_ReturnStep /\ C14_ClearStep]_vars

\* Two threads waited for different ids; the one whose event was published
\* has returned with the mailbox emptied, the other one is back in cvar.wait
C14_Witness ==
    \E c \in Callers, d \in Callers :
        /\ callers[c].pc = "done"
        /\ callers[d].pc = "cvar_wait"
        /\ WaitedId(c) # WaitedId(d)
        /\ published = {WaitedId(c)}
        /\ event = <<>>

---------------------------------------------------------------------------
(* C15: the mailbox has one slot and loses events: a publish while an      *)
(* earlier event is still in the mailbox replaces that event, and a thread *)
(* whose event was replaced does not return on what it finds; there is a   *)
(* run (two connections completing one after the other) that leaves a      *)
(* thread waiting for an event that was published and is gone.             *)

\* The thread waits, its socket is Established and its event was
\* published, but the mailbox holds something else
C15_Missed(c) ==
    /\ C2_Completed(c)
    /\ ~EventMatches(event, WaitedId(c), "ConnectionCompleted")

C15_PublishStep ==
    \A src \in RemotePorts, dest \in PORT_RANGE, p \in PeerSeqs, window \in PeerWindows :
        LET id == SockID(LocalAddr, RemoteAddr, dest, src)
        IN (/\ event # <<>>
            /\ InTable(id)
            /\ sockets[id].status = "SynSent"
            /\ Receive(src, dest, p, sockets[id].send_param.next, SYN + ACK, window,
                       TRUE, TRUE)
            /\ rx' = "running")
           => event' = <<TCPEvent(id, "ConnectionCompleted")>>

C15_MissedStep ==
    \A c \in Callers :
        (C15_Missed(c) /\ callers'[c] # callers[c])
        => callers'[c].pc \in {"wait_event", "cvar_wait"}

C15_MailboxOverwrites == [][C15_PublishStep /\ C15_MissedStep]_vars

\* Both connections completed; the second event replaced the first, and
\* the first thread went into cvar.wait on it
C15_Witness ==
    \E c \in Callers :
        /\ C15_Missed(c)
        /\ callers[c].pc = "cvar_wait"
        /\ event # <<>>
        /\ event[1].sock_id # WaitedId(c)
        /\ Cardinality(published) = 2

---------------------------------------------------------------------------
(* C16: a thread in connect holds no guard of the socket table while it is *)
(* in wait_event (and no mutex while inside cvar.wait); the receive thread *)
(* holds the table's write guard from the lookup to the end of the turn,   *)
(* and takes the event mutex only inside it; and no set of threads waits   *)
(* in a circle for the two locks.                                          *)

C16_WantsRead(t) ==
    t \in Callers /\ callers[t].pc = "select_port" /\ ~Poisoned

C16_WantsWrite(t) ==
    \/ t \in Callers /\ callers[t].pc = "insert" /\ ~Poisoned
    \/ t = RxThread /\ locks.rx_pc = "next" /\ rx = "running"

C16_WantsMutex(t) ==
    \/ t \in Callers /\ callers[t].pc = "wait_event"
    \/ t = RxThread /\ locks.rx_pc = "publish"

\* t cannot go on before u gives a lock back
C16_WaitsFor(t, u) ==
    /\ t # u
    /\ \/ C16_WantsRead(t) /\ u \in locks.table_writer
       \/ C16_WantsWrite(t) /\ u \in locks.table_writer \cup locks.table_readers
       \/ C16_WantsMutex(t) /\ u \in locks.event_mutex

C16_Deadlock ==
    \E S \in SUBSET Threads :
        /\ S # {}
        /\ \A t \in S : \E u \in S : C16_WaitsFor(t, u)

C16_CallerDropsTable ==
    \A c \in Callers :
        /\ callers[c].pc \in {"wait_event", "wait_locked", "cvar_wait"}
           => c \notin locks.table_writer \cup locks.table_readers
        /\ c \in locks.event_mutex <=> callers[c].pc = "wait_locked"

C16_RxHoldsTable ==
    /\ locks.rx_pc \in {"lookup", "publish", "notify"}
       <=> locks.table_writer = {RxThread}
    /\ locks.rx_pc = "notify" <=> locks.event_mutex = {RxThread}
    /\ locks.table_writer # {} => locks.table_readers = {}

C16_LockDiscipline ==
    /\ C16_CallerDropsTable
    /\ C16_RxHoldsTable
    /\ ~C16_Deadlock

\* The receive thread holds the table and waits for the mutex, which a
\* waiter holds; another thread in connect waits for the table
C16_Witness ==
    \E c \in Callers, d \in Callers :
        /\ C16_WaitsFor(RxThread, c)
        /\ C16_WaitsFor(d, RxThread)
        /\ callers[c].pc = "wait_locked"
        /\ locks.table_writer = {RxThread}

---------------------------------------------------------------------------
(* C17: on an accepted SYN+ACK{seq=P} the handler sets recv.initial_seq =  *)
(* P and recv.next = (P + 1) mod 2^32 for every 32-bit P, P = 0xFFFFFFFF   *)
(* included, and the receive thread keeps running.                         *)

C17_AcceptStep ==
    \A src \in RemotePorts, dest \in PORT_RANGE, p \in PeerSeqs,
       window \in PeerWindows, io_ok \in BOOLEAN :
        LET id == SockID(LocalAddr, RemoteAddr, dest, src)
        IN (/\ InTable(id)
            /\ sockets[id].status = "SynSent"
            /\ Receive(src, dest, p, sockets[id].send_param.next, SYN + ACK, window,
                       TRUE, io_ok))
           => /\ rx' = "running"
              /\ sockets'[id].recv_param.initial_seq = p
              /\ sockets'[id].recv_param.next = U32WrappingInc(p)

C17_PeerSeqWraps == [][C17_AcceptStep]_vars

---------------------------------------------------------------------------
(* C18: Established and ConnectionCompleted go together: no socket of the  *)
(* table is Established without ConnectionCompleted having been published  *)
(* for its id, also when the ACK could not be sent.                        *)

C18_EstablishedPublished ==
    \A id \in DOMAIN sockets :
        sockets[id].status = "Established" => id \in published

---------------------------------------------------------------------------
(* C19: connect has its socket in the table before a reply to its SYN can  *)
(* be dispatched: whenever a SYN is out, the socket it belongs to is in    *)
(* the table, so that the reply is never dropped for want of a socket.     *)

C19_SynRegistered ==
    \A p \in BagToSet(sent) :
        p.flag = SYN => InTable(SockID(LocalAddr, RemoteAddr, p.src, p.dest))

---------------------------------------------------------------------------
(* C20: an event published after connect has inserted its socket and       *)
(* before it has entered wait_event is not lost: the publish leaves it in  *)
(* the mailbox, and wait_event, finding it there on entry, returns without *)
(* having been inside cvar.wait.                                           *)

\* The thread has inserted its socket and is about to enter wait_event
C20_BeforeWait(c) ==
    /\ callers[c].pc = "wait_event"
    /\ ~callers[c].waited

C20_PublishStep ==
    \A c \in Callers, p \in PeerSeqs, window \in PeerWindows :
        (/\ C20_BeforeWait(c)
         /\ InTable(WaitedId(c))
         /\ sockets[WaitedId(c)].status = "SynSent"
         /\ Receive(callers[c].socket[1].remote_port, callers[c].socket[1].local_port, p,
                    sockets[WaitedId(c)].send_param.next, SYN + ACK, window, TRUE, TRUE)
         /\ rx' = "running")
        => /\ event' = <<TCPEvent(WaitedId(c), "ConnectionCompleted")>>
           /\ callers'[c] = callers[c]

C20_EntryStep ==
    \A c \in Callers :
        (/\ C20_BeforeWait(c)
         /\ event = <<TCPEvent(WaitedId(c), "ConnectionCompleted")>>
         /\ callers'[c] # callers[c])
        => /\ callers'[c] = [callers[c] EXCEPT !.pc = "done", !.ret = "Ok"]
           /\ event' = <<>>

C20_EarlyEventKept == [][C20_PublishStep /\ C20_EntryStep]_vars

\* connect has returned Ok on an event that was published once, and its
\* thread was never inside cvar.wait
C20_Witness ==
    \E c \in Callers :
        /\ callers[c].pc = "done"
        /\ callers[c].ret = "Ok"
        /\ ~callers[c].waited
        /\ published = {WaitedId(c)}
        /\ event = <<>>

====
